---- MODULE Spec2Model ----
(***************************************************************************)
(* Serial-device resolution of the XLerobot configuration:                 *)
(* _get_xlerobot_port and _get_device_info of                              *)
(* src/lerobot/robots/xlerobot/config_xlerobot.py, with the module-level   *)
(* cache port1/port2, the glob enumeration and the two probes (udevadm     *)
(* and pyserial's list_ports.comports).                                    *)
(***************************************************************************)
EXTENDS Integers, Sequences, FiniteSets, TLC

VARIABLES
    port1,      \* module global port1 (None or a device path)
    port2,      \* module global port2 (None or a device path)
    dev,        \* environment: path -> serial of the device plugged there
    fs,         \* environment: glob pattern -> what glob.glob returns for it
    verified,   \* history: the serial each cached path was compared equal to
    last,       \* the call of _get_xlerobot_port that has just returned
    mIn,        \* inputs of one isolated _get_device_info call
    mOut,       \* the dict that call returned
    dIn,        \* inputs of one pass over a candidate list with repeats
    dOut,       \* outcome of that pass and of the pass without the repeats
    conc        \* two callers running _get_xlerobot_port concurrently

vars == <<port1, port2, verified, dev, fs, last, mIn, mOut, dIn, dOut, conc>>

\* -------------------------------------------------------------------------
\* Python values
\* -------------------------------------------------------------------------

\* Python's None, in a slot that otherwise holds a string.
None == "None"

\* Python's None, in a slot that otherwise holds an int (port.vid, port.pid).
NoneInt == -1

\* Truth value of an Optional[str]: None and '' are falsy.
Truthy(v) == v # None /\ v # ""

\* Truth value of an Optional[int]: None and 0 are falsy.
TruthyInt(n) == n # NoneInt /\ n # 0

HexDigits == <<"0", "1", "2", "3", "4", "5", "6", "7",
               "8", "9", "a", "b", "c", "d", "e", "f">>

RECURSIVE HexStr(_)
\* format(n, 'x'): lowercase hexadecimal, no padding.
HexStr(n) ==
    IF n < 16 THEN HexDigits[n + 1]
    ELSE HexStr(n \div 16) \o HexDigits[(n % 16) + 1]

RECURSIVE ZeroPad(_, _)
ZeroPad(s, width) == IF Len(s) >= width THEN s ELSE ZeroPad("0" \o s, width)

\* f"{n:04x}"
Hex4(n) == ZeroPad(HexStr(n), 4)

\* isinstance(exception of class kind, cls): every probe failure is an
\* Exception.
IsInstance(kind, cls) == cls = kind \/ cls = "Exception"

\* -------------------------------------------------------------------------
\* Bounds
\* -------------------------------------------------------------------------

\* Devices plugged in at the same time.
MaxAttached == 2

\* Lines of udevadm output in an isolated _get_device_info call.
MaxLines == 2

\* Entries of list_ports.comports() in an isolated _get_device_info call.
MaxPorts == 2

\* -------------------------------------------------------------------------
\* The environment
\* -------------------------------------------------------------------------

\* Patterns with the COM pattern first.
PatternsComFirst == <<"/COM*", "/dev/ttyACM*">>

\* The patterns of the for loop, in its order.
Patterns == <<"/dev/ttyACM*", "/COM*">>

AcmPaths == {"/dev/ttyACM0", "/dev/ttyACM1"}
ComPaths == {"/COM3"}
Paths == AcmPaths \cup ComPaths

PatternOf(p) == IF p \in AcmPaths THEN "/dev/ttyACM*" ELSE "/COM*"

Serials == {"AAA111", "BBB222"}

\* glob.glob(pattern)
Glob(pattern) == fs[pattern]

\* os.path.exists(device_path)
Exists(p) == p \in Paths /\ dev[p] # None

Attached == {p \in Paths : dev[p] # None}

\* One line of udevadm's standard output: eq says whether it contains '='.
Line(k, v) == [eq |-> TRUE, key |-> k, value |-> v]
NoEqLine == [eq |-> FALSE, key |-> "", value |-> ""]

\* The result of subprocess.run(['udevadm', ...], timeout=2): either the
\* exception it raises, or a return code and the lines of stdout.
Completed(rc, lines) == [raises |-> None, returncode |-> rc, stdout |-> lines]
Raised(kind) == [raises |-> kind, returncode |-> 0, stdout |-> <<>>]

\* What udevadm prints for a plugged device.
UdevLines(p) == <<Line("DEVNAME", p), Line("ID_SERIAL_SHORT", dev[p])>>

UdevKinds == {"ok", "nonzero", "TimeoutExpired", "FileNotFoundError",
              "PermissionError"}

\* subprocess.run for path p when the probe goes the way a says.
UdevRun(p, a) ==
    IF a = "ok" THEN Completed(0, UdevLines(p))
    ELSE IF a = "nonzero" THEN Completed(1, UdevLines(p))
    ELSE Raised(a)

\* A pyserial port descriptor (ListPortInfo).
PortInfo(d, desc, man, prod, ser, v, pd) ==
    [device |-> d, description |-> desc, manufacturer |-> man,
     product |-> prod, serial_number |-> ser, vid |-> v, pid |-> pd]

ComportsKinds == {"ok", "OSError"}

\* The descriptor pyserial has for a plugged device.
PortOf(p) == PortInfo(p, None, None, None, dev[p], NoneInt, NoneInt)

\* The result of list_ports.comports(): an exception, or the descriptors.
Ports(lst) == [raises |-> None, list |-> lst]
PortsRaised(kind) == [raises |-> kind, list |-> <<>>]

AllGlobbed == fs["/dev/ttyACM*"] \o fs["/COM*"]

\* list_ports.comports() when the probe goes the way b says.
Comports(b) ==
    IF b = "ok"
    THEN Ports([i \in 1..Len(AllGlobbed) |-> PortOf(AllGlobbed[i])])
    ELSE PortsRaised(b)

\* -------------------------------------------------------------------------
\* _get_device_info
\* -------------------------------------------------------------------------

\* The dict built at the top of _get_device_info.
InitialInfo(device_path, exists) ==
    [path |-> device_path, exists |-> exists, vendor_id |-> None,
     product_id |-> None, serial |-> None, description |-> None,
     manufacturer |-> None, product |-> None]

\* The body of the loop over result.stdout.split('\n').
ParseLine(info, line) ==
    IF ~line.eq THEN info
    ELSE IF line.key = "ID_VENDOR_ID" THEN [info EXCEPT !.vendor_id = line.value]
    ELSE IF line.key = "ID_MODEL_ID" THEN [info EXCEPT !.product_id = line.value]
    ELSE IF line.key = "ID_SERIAL_SHORT" THEN [info EXCEPT !.serial = line.value]
    ELSE IF line.key = "ID_VENDOR" THEN [info EXCEPT !.manufacturer = line.value]
    ELSE IF line.key = "ID_MODEL" THEN [info EXCEPT !.product = line.value]
    ELSE info

RECURSIVE ParseLines(_, _, _)
ParseLines(info, lines, i) ==
    IF i > Len(lines) THEN info
    ELSE ParseLines(ParseLine(info, lines[i]), lines, i + 1)

\* UdevHandlers without the catch-all class.
UdevHandlersNarrow == {"TimeoutExpired", "FileNotFoundError"}

\* The exception classes of the first except clause.
UdevHandlers == {"TimeoutExpired", "FileNotFoundError", "Exception"}

\* The exception classes of the second except clause.
ComportsHandlers == {"Exception"}

\* The first try block: [info, exc], exc the exception that escapes it.
UdevProbe(info, udev) ==
    IF udev.raises # None
    THEN IF \E cls \in UdevHandlers : IsInstance(udev.raises, cls)
         THEN [info |-> info, exc |-> None]
         ELSE [info |-> info, exc |-> udev.raises]
    ELSE IF udev.returncode = 0
         THEN [info |-> ParseLines(info, udev.stdout, 1), exc |-> None]
         ELSE [info |-> info, exc |-> None]

\* MergePort with pyserial's serial number always taken.
MergePortSerialOverride(info, port) ==
    LET i1 == [info EXCEPT !.description = port.description]
        i2 == IF ~Truthy(i1.manufacturer)
              THEN [i1 EXCEPT !.manufacturer = port.manufacturer] ELSE i1
        i3 == IF ~Truthy(i2.product)
              THEN [i2 EXCEPT !.product = port.product] ELSE i2
        i4 == [i3 EXCEPT !.serial = port.serial_number]
        i5 == IF ~Truthy(i4.vendor_id)
              THEN [i4 EXCEPT !.vendor_id =
                       IF TruthyInt(port.vid) THEN Hex4(port.vid) ELSE None]
              ELSE i4
        i6 == IF ~Truthy(i5.product_id)
              THEN [i5 EXCEPT !.product_id =
                       IF TruthyInt(port.pid) THEN Hex4(port.pid) ELSE None]
              ELSE i5
    IN i6

\* The body of "if port.device == device_path".
MergePort(info, port) ==
    LET i1 == [info EXCEPT !.description = port.description]
        i2 == IF ~Truthy(i1.manufacturer)
              THEN [i1 EXCEPT !.manufacturer = port.manufacturer] ELSE i1
        i3 == IF ~Truthy(i2.product)
              THEN [i2 EXCEPT !.product = port.product] ELSE i2
        i4 == IF ~Truthy(i3.serial)
              THEN [i3 EXCEPT !.serial = port.serial_number] ELSE i3
        i5 == IF ~Truthy(i4.vendor_id)
              THEN [i4 EXCEPT !.vendor_id =
                       IF TruthyInt(port.vid) THEN Hex4(port.vid) ELSE None]
              ELSE i4
        i6 == IF ~Truthy(i5.product_id)
              THEN [i5 EXCEPT !.product_id =
                       IF TruthyInt(port.pid) THEN Hex4(port.pid) ELSE None]
              ELSE i5
    IN i6

RECURSIVE ScanPorts(_, _, _)
\* for port in ports: ... break
ScanPorts(info, lst, i) ==
    IF i > Len(lst) THEN info
    ELSE IF lst[i].device = info.path THEN MergePort(info, lst[i])
    ELSE ScanPorts(info, lst, i + 1)

\* The second try block.
ComportsProbe(info, ports) ==
    IF ports.raises # None
    THEN IF \E cls \in ComportsHandlers : IsInstance(ports.raises, cls)
         THEN [info |-> info, exc |-> None]
         ELSE [info |-> info, exc |-> ports.raises]
    ELSE [info |-> ScanPorts(info, ports.list, 1), exc |-> None]

\* _get_device_info(device_path), given what the two probes produce:
\* [info |-> the dict returned, exc |-> the exception raised instead].
GetDeviceInfo(device_path, exists, udev, ports) ==
    LET a == UdevProbe(InitialInfo(device_path, exists), udev)
    IN IF a.exc # None THEN a ELSE ComportsProbe(a.info, ports)

\* -------------------------------------------------------------------------
\* _get_xlerobot_port
\* -------------------------------------------------------------------------

\* Assign with the second comparison copied from the first.
AssignCopyPaste(st, device, info, serial1, serial2) ==
    [st EXCEPT
        !.log = Append(@, device),
        !.infos = Append(@, info),
        !.port1 = IF info.serial = serial1 THEN device ELSE @,
        !.port2 = IF info.serial = serial1 THEN device ELSE @]

\* Assign with a slot cleared by a candidate that does not match.
AssignOrClear(st, device, info, serial1, serial2) ==
    [st EXCEPT
        !.log = Append(@, device),
        !.infos = Append(@, info),
        !.port1 = IF info.serial = serial1 THEN device ELSE None,
        !.port2 = IF info.serial = serial2 THEN device ELSE None]

\* Assign by position: the first candidate is bus 1, the second bus 2.
AssignByPosition(st, device, info, serial1, serial2) ==
    [st EXCEPT
        !.log = Append(@, device),
        !.infos = Append(@, info),
        !.port1 = IF Len(st.log) = 0 THEN device ELSE @,
        !.port2 = IF Len(st.log) = 1 THEN device ELSE @]

\* Assign with the two targets exchanged.
AssignSwapped(st, device, info, serial1, serial2) ==
    [st EXCEPT
        !.log = Append(@, device),
        !.infos = Append(@, info),
        !.port1 = IF info.serial = serial2 THEN device ELSE @,
        !.port2 = IF info.serial = serial1 THEN device ELSE @]

\* The two ifs of the loop body, with info the dict the probe returned.
Assign(st, device, info, serial1, serial2) ==
    [st EXCEPT
        !.log = Append(@, device),
        !.infos = Append(@, info),
        !.port1 = IF info.serial = serial1 THEN device ELSE @,
        !.port2 = IF info.serial = serial2 THEN device ELSE @]

\* An exception of _get_device_info leaves the loop.
Abort(st, device, exc) == [st EXCEPT !.log = Append(@, device), !.exc = exc]

\* r is what _get_device_info(device) produced.
AfterProbe(st, device, r, serial1, serial2) ==
    IF r.exc # None THEN Abort(st, device, r.exc)
    ELSE Assign(st, device, r.info, serial1, serial2)

\* The body of "for device in devices": probe the device, then the two ifs.
\* st carries the globals, the patterns globbed (globs), the paths probed
\* (log), the dicts the probes returned (infos) and an exception that
\* escaped (exc).
VisitDevice(st, device, serial1, serial2, out) ==
    AfterProbe(st, device,
               GetDeviceInfo(device, Exists(device),
                             UdevRun(device, out[device].a),
                             Comports(out[device].b)),
               serial1, serial2)

RECURSIVE ScanDevices(_, _, _, _, _, _)
\* for device in devices
ScanDevices(st, devices, i, serial1, serial2, out) ==
    IF i > Len(devices) \/ st.exc # None THEN st
    ELSE ScanDevices(VisitDevice(st, devices[i], serial1, serial2, out),
                     devices, i + 1, serial1, serial2, out)

RECURSIVE ScanPatterns(_, _, _, _, _)
\* for pattern in ["/dev/ttyACM*", "/COM*"]
ScanPatterns(st, k, serial1, serial2, out) ==
    IF k > Len(Patterns) \/ st.exc # None THEN st
    ELSE ScanPatterns(
             ScanDevices([st EXCEPT !.globs = Append(@, Patterns[k])],
                         Glob(Patterns[k]), 1, serial1, serial2, out),
             k + 1, serial1, serial2, out)

\* CacheHit with "or" for "and".
CacheHitEither(p1, p2) == Truthy(p1) \/ Truthy(p2)

\* CacheHit without the early return.
CacheHitNever(p1, p2) == FALSE

\* The early return of _get_xlerobot_port.
CacheHit(p1, p2) == Truthy(p1) /\ Truthy(p2)

\* Finish with the print inside the loop: the line shows the globals as
\* they were before the scan.
FinishPrintEarly(st) ==
    IF st.exc # None THEN st
    ELSE [st EXCEPT !.printed = <<<<None, None>>>>,
                    !.ret = <<st.port1, st.port2>>]

\* The print and the return that follow the loops.
Finish(st) ==
    IF st.exc # None THEN st
    ELSE [st EXCEPT !.printed = <<<<st.port1, st.port2>>>>,
                    !.ret = <<st.port1, st.port2>>]

\* _get_xlerobot_port(serial1, serial2) called with the globals at p1, p2:
\* the globals it leaves, what it globbed, probed and printed, and what it
\* returned (ret) or raised (exc).
GetXlerobotPort(p1, p2, serial1, serial2, out) ==
    LET st0 == [port1 |-> p1, port2 |-> p2, globs |-> <<>>, log |-> <<>>,
                infos |-> <<>>, printed |-> <<>>, exc |-> None,
                ret |-> <<None, None>>]
    IN IF CacheHit(p1, p2)
       THEN [st0 EXCEPT !.ret = <<p1, p2>>]
       ELSE Finish(ScanPatterns(st0, 1, serial1, serial2, out))

\* No call has returned since the environment last changed.
NoCall == [kind |-> "idle"]

\* How the probes of one pass go: on the candidates in flaky udevadm goes
\* the way a says and comports the way b says, on the others both succeed.
ProbeOutcomes(a, b, flaky) ==
    [p \in Attached |-> IF p \in flaky THEN [a |-> a, b |-> b]
                                         ELSE [a |-> "ok", b |-> "ok"]]

\* The serial a slot's path was last compared equal to: the target of this
\* call when one of its comparisons succeeded, else what it was (old).
Compared(r, serial, old) ==
    IF \E k \in 1..Len(r.infos) : r.infos[k].serial = serial THEN serial
    ELSE old

\* A caller invokes _get_xlerobot_port(serial1, serial2).
Resolve ==
    \E serial1 \in Serials, serial2 \in Serials :
    \E a \in UdevKinds, b \in ComportsKinds, flaky \in SUBSET Attached :
        /\ (flaky = {}) <=> (a = "ok" /\ b = "ok")
        /\ \E r \in {GetXlerobotPort(port1, port2, serial1, serial2,
                                      ProbeOutcomes(a, b, flaky))} :
               /\ port1' = r.port1
               /\ port2' = r.port2
               /\ verified' = <<Compared(r, serial1, verified[1]),
                                Compared(r, serial2, verified[2])>>
               /\ last' = [kind |-> "call",
                           serial1 |-> serial1, serial2 |-> serial2,
                           before |-> <<port1, port2>>,
                           hit |-> CacheHit(port1, port2),
                           afail |-> IF a = "ok" THEN {} ELSE flaky,
                           bfail |-> IF b = "ok" THEN {} ELSE flaky,
                           globs |-> r.globs, log |-> r.log,
                           infos |-> r.infos, printed |-> r.printed,
                           exc |-> r.exc, ret |-> r.ret]
        /\ UNCHANGED <<dev, fs, mIn, mOut, dIn, dOut, conc>>

\* s with x inserted so that it becomes element number pos.
InsertAt(s, pos, x) == SubSeq(s, 1, pos - 1) \o <<x>> \o SubSeq(s, pos, Len(s))

\* s without its elements equal to x.
Without(s, x) == SelectSeq(s, LAMBDA y : y # x)

\* A device with serial s is plugged in and gets path p; the directory
\* listing behind glob shows it at some position.
Plug ==
    \E p \in Paths, s \in Serials :
        /\ dev[p] = None
        /\ Cardinality(Attached) < MaxAttached
        /\ \E pos \in 1..(Len(fs[PatternOf(p)]) + 1) :
               fs' = [fs EXCEPT ![PatternOf(p)] = InsertAt(@, pos, p)]
        /\ dev' = [dev EXCEPT ![p] = s]
        /\ last' = NoCall
        /\ UNCHANGED <<port1, port2, verified, mIn, mOut, dIn, dOut, conc>>

\* The device at path p is unplugged.
Unplug ==
    \E p \in Paths :
        /\ dev[p] # None
        /\ dev' = [dev EXCEPT ![p] = None]
        /\ fs' = [fs EXCEPT ![PatternOf(p)] = Without(@, p)]
        /\ last' = NoCall
        /\ UNCHANGED <<port1, port2, verified, mIn, mOut, dIn, dOut, conc>>

\* An isolated _get_device_info call that has not run.
NoInput == [kind |-> "idle"]

\* The module is imported: port1 = None, port2 = None, nothing plugged in.
Init ==
    /\ port1 = None
    /\ port2 = None
    /\ verified = <<None, None>>
    /\ dev = [p \in Paths |-> None]
    /\ fs = [pattern \in {"/dev/ttyACM*", "/COM*"} |-> <<>>]
    /\ last = NoCall
    /\ mIn = NoInput
    /\ mOut = NoInput
    /\ dIn = NoInput
    /\ dOut = NoInput
    /\ conc = NoInput

Next == Resolve \/ Plug \/ Unplug

Spec == Init /\ [][Next]_vars

\* -------------------------------------------------------------------------
\* _get_device_info in isolation: one call on arbitrary probe results
\* -------------------------------------------------------------------------

\* The keys of the dict that both probes can fill.
Fields == {"serial", "manufacturer", "product", "vendor_id", "product_id"}

\* The udevadm property that fills a key.
KeyOf(f) ==
    IF f = "serial" THEN "ID_SERIAL_SHORT"
    ELSE IF f = "manufacturer" THEN "ID_VENDOR"
    ELSE IF f = "product" THEN "ID_MODEL"
    ELSE IF f = "vendor_id" THEN "ID_VENDOR_ID"
    ELSE "ID_MODEL_ID"

\* Sequences over S of length at most n.
SeqsUpTo(S, n) == UNION {[1..k -> S] : k \in 0..n}

\* Lines udevadm may print about field f: the property empty or set, an
\* ignored property, a line without '='.
LinesAbout(f) ==
    {Line(KeyOf(f), v) : v \in {"", "X", "Z"}}
        \cup {Line("ID_USB_INTERFACE_NUM", "00"), NoEqLine}

\* A descriptor of path d whose attribute behind field f is v.
PortAbout(f, d, v) ==
    IF f = "serial" THEN PortInfo(d, "desc", None, None, v, NoneInt, NoneInt)
    ELSE IF f = "manufacturer"
    THEN PortInfo(d, "desc", v, None, None, NoneInt, NoneInt)
    ELSE IF f = "product"
    THEN PortInfo(d, "desc", None, v, None, NoneInt, NoneInt)
    ELSE IF f = "vendor_id"
    THEN PortInfo(d, "desc", None, None, None, v, NoneInt)
    ELSE PortInfo(d, "desc", None, None, None, NoneInt, v)

\* Values pyserial may hold in the attribute behind field f.
PortValues(f) ==
    IF f \in {"vendor_id", "product_id"} THEN {NoneInt, 0, 10, 11914}
    ELSE {None, "", "Y"}

\* The path probed in isolation, and another port of the machine.
ProbedPath == "/dev/ttyACM0"
OtherPath == "/dev/ttyACM1"

UdevResults(f) ==
    {Raised(k) : k \in {"TimeoutExpired", "FileNotFoundError",
                        "PermissionError"}}
        \cup {Completed(rc, lines) :
                 rc \in {0, 1}, lines \in SeqsUpTo(LinesAbout(f), MaxLines)}

ComportsResults(f) ==
    {PortsRaised("OSError")}
        \cup {Ports(lst) :
                 lst \in SeqsUpTo({PortAbout(f, d, v) :
                                      d \in {ProbedPath, OtherPath},
                                      v \in PortValues(f)}, MaxPorts)}

\* One call _get_device_info(ProbedPath) about to run on some probe results.
InitMerge ==
    /\ port1 = None
    /\ port2 = None
    /\ verified = <<None, None>>
    /\ dev = [p \in Paths |-> None]
    /\ fs = [pattern \in {"/dev/ttyACM*", "/COM*"} |-> <<>>]
    /\ last = NoCall
    /\ \E f \in Fields, e \in BOOLEAN :
       \E u \in UdevResults(f), c \in ComportsResults(f) :
           mIn = [kind |-> "input", field |-> f, path |-> ProbedPath,
                  exists |-> e, udev |-> u, ports |-> c]
    /\ mOut = NoInput
    /\ dIn = NoInput
    /\ dOut = NoInput
    /\ conc = NoInput

\* The call runs.
ProbeDevice ==
    /\ mIn # NoInput
    /\ mOut = NoInput
    /\ mOut' = [kind |-> "output",
                r |-> GetDeviceInfo(mIn.path, mIn.exists, mIn.udev, mIn.ports)]
    /\ UNCHANGED <<port1, port2, verified, dev, fs, last, mIn, dIn, dOut, conc>>

NextMerge == ProbeDevice

SpecMerge == InitMerge /\ [][NextMerge]_vars

\* -------------------------------------------------------------------------
\* One pass of _get_xlerobot_port over a candidate list with repeated paths
\* -------------------------------------------------------------------------

\* Candidates of one pass.
MaxCands == 3

RECURSIVE Dedup(_)
\* s with the repeated occurrences of its elements removed.
Dedup(s) ==
    IF s = <<>> THEN <<>>
    ELSE LET front == Dedup(SubSeq(s, 1, Len(s) - 1))
             x == s[Len(s)]
         IN IF \E k \in 1..Len(front) : front[k] = x THEN front
            ELSE Append(front, x)

\* The elements of s.
Range(s) == {s[k] : k \in 1..Len(s)}

\* An enumeration lists what the ACM pattern gave before what COM gave.
AcmBeforeCom(s) ==
    \A i, j \in 1..Len(s) : (s[i] \in ComPaths /\ s[j] \in AcmPaths) => j < i

\* The loops of _get_xlerobot_port, the print and the return, run on the
\* enumeration cands with the globals at p1, p2.
PassOver(cands, p1, p2, serial1, serial2, out) ==
    Finish(ScanDevices([port1 |-> p1, port2 |-> p2,
                        globs |-> Patterns, log |-> <<>>, infos |-> <<>>,
                        printed |-> <<>>, exc |-> None,
                        ret |-> <<None, None>>],
                       cands, 1, serial1, serial2, out))

\* A pass is about to run on an enumeration that may repeat paths, over
\* some plugged devices, with the cache not yet full.
InitDup ==
    /\ \E p1 \in Paths \cup {None}, p2 \in Paths \cup {None} :
           /\ ~CacheHit(p1, p2)
           /\ port1 = p1
           /\ port2 = p2
    /\ verified = <<None, None>>
    /\ last = NoCall
    /\ mIn = NoInput
    /\ mOut = NoInput
    /\ dOut = NoInput
    /\ conc = NoInput
    /\ \E cands \in SeqsUpTo(Paths, MaxCands) :
           /\ AcmBeforeCom(cands)
           /\ dev \in [Paths -> Serials \cup {None}]
           /\ Attached = Range(cands)
           /\ fs = [pattern \in {"/dev/ttyACM*", "/COM*"} |->
                       Dedup(SelectSeq(cands,
                                       LAMBDA p : PatternOf(p) = pattern))]
           /\ \E serial1 \in Serials, serial2 \in Serials :
              \E a \in UdevKinds, b \in ComportsKinds,
                 flaky \in SUBSET Range(cands) :
                  /\ (flaky = {}) <=> (a = "ok" /\ b = "ok")
                  /\ dIn = [kind |-> "input", cands |-> cands,
                            serial1 |-> serial1, serial2 |-> serial2,
                            a |-> a, b |-> b, flaky |-> flaky]

\* The pass runs; next to it, the pass over the enumeration without the
\* repeats from the same globals.
ScanWithRepeats ==
    /\ dIn # NoInput
    /\ dOut = NoInput
    /\ \E out \in {ProbeOutcomes(dIn.a, dIn.b, dIn.flaky)} :
       \E r \in {PassOver(dIn.cands, port1, port2,
                          dIn.serial1, dIn.serial2, out)} :
           /\ port1' = r.port1
           /\ port2' = r.port2
           /\ dOut' = [kind |-> "output", repeats |-> r,
                       clean |-> PassOver(Dedup(dIn.cands), port1, port2,
                                          dIn.serial1, dIn.serial2, out)]
    /\ UNCHANGED <<verified, dev, fs, last, mIn, mOut, dIn, conc>>

NextDup == ScanWithRepeats

SpecDup == InitDup /\ [][NextDup]_vars

\* -------------------------------------------------------------------------
\* Two concurrent callers of _get_xlerobot_port
\* -------------------------------------------------------------------------

\* The threads that call _get_xlerobot_port with the same targets.
Callers == {"t1", "t2"}


\* The dict a candidate's probe returns when both probes succeed.
InfoOf(device) ==
    GetDeviceInfo(device, Exists(device), UdevRun(device, "ok"),
                  Comports("ok")).info

\* The candidates of a pass, in the order the loops visit them.
Candidates == Glob(Patterns[1]) \o Glob(Patterns[2])

\* Orders in which glob may list the paths of S.
Listings(S) == {s \in SeqsUpTo(S, Cardinality(S)) : Range(s) = S /\ Len(s) = Cardinality(S)}

\* A fresh process, some devices plugged in for good, and two callers about
\* to call _get_xlerobot_port(serial1, serial2). conc.writer remembers
\* which caller wrote each global last; a caller's early says that it
\* returned a value written by a caller that was still scanning.
InitConc ==
    /\ port1 = None
    /\ port2 = None
    /\ verified = <<None, None>>
    /\ last = NoCall
    /\ mIn = NoInput
    /\ mOut = NoInput
    /\ dIn = NoInput
    /\ dOut = NoInput
    /\ dev \in [Paths -> Serials \cup {None}]
    /\ Cardinality(Attached) <= MaxAttached
    /\ \E acm \in Listings(Attached \cap AcmPaths),
          com \in Listings(Attached \cap ComPaths) :
           fs = [pattern \in {"/dev/ttyACM*", "/COM*"} |->
                    IF pattern = "/dev/ttyACM*" THEN acm ELSE com]
    /\ \E serial1 \in Serials, serial2 \in Serials :
           conc = [kind |-> "run", serial1 |-> serial1, serial2 |-> serial2,
                   writer |-> <<None, None>>,
                   c |-> [t \in Callers |->
                             [pc |-> "check1", i |-> 1, ret1 |-> None,
                              ret |-> <<None, None>>, early |-> FALSE]]]

\* Caller t is at pc.
At(t, pc) == conc # NoInput /\ conc.c[t].pc = pc

\* Caller t has not run both ifs on every candidate yet.
Scanning(t) ==
    \/ conc.c[t].pc \in {"check1", "check2", "scan2"}
    \/ conc.c[t].pc = "scan1" /\ conc.c[t].i <= Len(Candidates)

\* The value read from global number k comes from a caller still scanning.
ReadsEarly(k, value) ==
    /\ value # None
    /\ conc.writer[k] # None
    /\ Scanning(conc.writer[k])

\* "if port1 and port2": t reads port1.
CheckPort1(t) ==
    /\ At(t, "check1")
    /\ conc' = [conc EXCEPT !.c[t].pc =
                   IF Truthy(port1) THEN "check2" ELSE "scan1"]
    /\ UNCHANGED <<port1, port2, verified, dev, fs, last, mIn, mOut, dIn, dOut>>

\* "if port1 and port2": t reads port2; both truthy, it goes to the return.
CheckPort2(t) ==
    /\ At(t, "check2")
    /\ conc' = [conc EXCEPT !.c[t].pc =
                   IF Truthy(port2) THEN "ret1" ELSE "scan1"]
    /\ UNCHANGED <<port1, port2, verified, dev, fs, last, mIn, mOut, dIn, dOut>>

\* t probes its next candidate and runs the first if, which may write
\* port1; after the last candidate it prints and goes to the return.
ScanFirstIf(t) ==
    /\ At(t, "scan1")
    /\ IF conc.c[t].i > Len(Candidates)
       THEN /\ conc' = [conc EXCEPT !.c[t].pc = "ret1"]
            /\ port1' = port1
       ELSE IF InfoOf(Candidates[conc.c[t].i]).serial = conc.serial1
       THEN /\ port1' = Candidates[conc.c[t].i]
            /\ conc' = [conc EXCEPT !.c[t].pc = "scan2", !.writer[1] = t]
       ELSE /\ port1' = port1
            /\ conc' = [conc EXCEPT !.c[t].pc = "scan2"]
    /\ UNCHANGED <<port2, verified, dev, fs, last, mIn, mOut, dIn, dOut>>

\* t runs the second if on the candidate, which may write port2.
ScanSecondIf(t) ==
    /\ At(t, "scan2")
    /\ IF InfoOf(Candidates[conc.c[t].i]).serial = conc.serial2
       THEN /\ port2' = Candidates[conc.c[t].i]
            /\ conc' = [conc EXCEPT !.c[t].pc = "scan1", !.c[t].i = @ + 1,
                                    !.writer[2] = t]
       ELSE /\ port2' = port2
            /\ conc' = [conc EXCEPT !.c[t].pc = "scan1", !.c[t].i = @ + 1]
    /\ UNCHANGED <<port1, verified, dev, fs, last, mIn, mOut, dIn, dOut>>

\* "return port1, port2": t reads port1.
ReturnPort1(t) ==
    /\ At(t, "ret1")
    /\ conc' = [conc EXCEPT !.c[t].pc = "ret2",
                            !.c[t].ret1 = port1,
                            !.c[t].early = @ \/ ReadsEarly(1, port1)]
    /\ UNCHANGED <<port1, port2, verified, dev, fs, last, mIn, mOut, dIn, dOut>>

\* "return port1, port2": t reads port2 and returns the pair.
ReturnPort2(t) ==
    /\ At(t, "ret2")
    /\ conc' = [conc EXCEPT !.c[t].pc = "done",
                            !.c[t].ret = <<conc.c[t].ret1, port2>>,
                            !.c[t].early = @ \/ ReadsEarly(2, port2)]
    /\ UNCHANGED <<port1, port2, verified, dev, fs, last, mIn, mOut, dIn, dOut>>

NextConc ==
    \E t \in Callers :
        \/ CheckPort1(t)
        \/ CheckPort2(t)
        \/ ScanFirstIf(t)
        \/ ScanSecondIf(t)
        \/ ReturnPort1(t)
        \/ ReturnPort2(t)

SpecConc == InitConc /\ [][NextConc]_vars

\* -------------------------------------------------------------------------
\* Properties of _get_xlerobot_port
\* -------------------------------------------------------------------------

\* A call has just returned or raised; last describes it and the
\* environment is still the one it ran in.
Called == last.kind = "call"

\* The target serial the just-returned call supplied for slot i.
Target(i) == IF i = 1 THEN last.serial1 ELSE last.serial2

\* The cache as a pair.
Cache == <<port1, port2>>

Slots == {1, 2}

\* Positions of the candidates of the just-returned pass whose merged
\* serial is s.
MatchIdx(s) == {k \in 1..Len(last.infos) : last.infos[k].serial = s}

Min(S) == CHOOSE x \in S : \A y \in S : x <= y
Max(S) == CHOOSE x \in S : \A y \in S : x >= y

\* The just-returned call ran a pass that started from an empty cache.
PassFromEmpty == Called /\ last.exc = None /\ last.before = <<None, None>>

\* C1: a call that starts with both cache slots resolved returns exactly the
\* cached pair, globs nothing, probes nothing and leaves the cache as it
\* was, whatever the devices have become.
CacheShortCircuit ==
    (Called /\ Truthy(last.before[1]) /\ Truthy(last.before[2])) =>
        /\ last.exc = None
        /\ last.ret = last.before
        /\ last.globs = <<>>
        /\ last.log = <<>>
        /\ Cache = last.before

\* C1 witness: a call answered from the cache although the device behind
\* port1 has been unplugged and another device sits elsewhere.
CacheShortCircuitWitness ==
    /\ Called
    /\ Truthy(last.before[1]) /\ Truthy(last.before[2])
    /\ last.ret = last.before
    /\ dev[last.ret[1]] = None
    /\ Attached # {}

\* C2 as claimed: in a pass from an empty cache the path of a target is
\* that of the FIRST candidate whose merged serial equals the target.
FirstMatchWins ==
    PassFromEmpty =>
        \A i \in Slots :
            MatchIdx(Target(i)) # {} =>
                last.ret[i] = last.log[Min(MatchIdx(Target(i)))]

\* C3 as claimed: every resolved path a call returns was compared equal to
\* the serial that this call supplied for the slot.
CacheIdentity ==
    (Called /\ last.exc = None) =>
        \A i \in Slots : last.ret[i] # None => verified[i] = Target(i)

\* C4 as claimed: every resolved path a call returns carries the target
\* serial at the time of the call. Stated for the slots whose path was
\* compared with the very serial this call supplies, so that a violation
\* owes nothing to a change of targets between calls.
ReturnedPathsCurrent ==
    (Called /\ last.exc = None) =>
        \A i \in Slots :
            (last.ret[i] # None /\ verified[i] = Target(i)) =>
                dev[last.ret[i]] = Target(i)

\* C4 amended: every resolved path a call returns is either the path the
\* cache already held for the slot when the call started, or a path whose
\* device carries the target serial at the time of the call.
ReturnedPathsCurrentOrCached ==
    (Called /\ last.exc = None) =>
        \A i \in Slots :
            last.ret[i] # None =>
                \/ last.ret[i] = last.before[i]
                \/ dev[last.ret[i]] = Target(i)

\* C4 witness: a retry after a re-plug returns a stale path for slot 1
\* (kept from the cache) and a freshly matched path for slot 2.
ReturnedPathsWitness ==
    /\ Called /\ last.exc = None
    /\ last.ret[1] # None /\ last.ret[1] = last.before[1]
    /\ verified[1] = Target(1)
    /\ dev[last.ret[1]] # Target(1)
    /\ last.ret[2] # None /\ last.before[2] = None
    /\ dev[last.ret[2]] = Target(2)

\* C5 as claimed: a cache slot that holds a path is never assigned again.
SingleAssignment ==
    [][/\ Truthy(port1) => port1' = port1
       /\ Truthy(port2) => port2' = port2]_vars

\* The just-returned call was not answered from the cache.
RanPass == Called /\ ~(Truthy(last.before[1]) /\ Truthy(last.before[2]))

\* The serial pyserial lists for path p in the just-returned pass: that of
\* the first descriptor of the path, nothing when comports failed for p.
ComportsSerial(p) ==
    LET lst == Comports("ok").list
        idx == {k \in 1..Len(lst) : lst[k].device = p}
    IN IF p \in last.bfail \/ idx = {} THEN None
       ELSE lst[Min(idx)].serial_number

\* The serial udevadm printed for path p in the just-returned pass, nothing
\* when it failed for p.
UdevSerial(p) == IF p \in last.afail THEN None ELSE dev[p]

\* Positions of the candidates whose pyserial serial is s.
ComportsIdx(s) ==
    {k \in 1..Len(last.log) : ComportsSerial(last.log[k]) = s}

\* Slot i matched against the pyserial serials alone.
ComportsOnly(i) ==
    IF ComportsIdx(Target(i)) = {} THEN last.before[i]
    ELSE last.log[Max(ComportsIdx(Target(i)))]

\* C7: a pass never raises whatever way the probes fail; a candidate whose
\* udevadm probe failed has the serial pyserial lists, one whose comports
\* probe failed has the serial udevadm printed; and when udevadm failed for
\* every candidate the pass returns the pair matched against the pyserial
\* serials alone.
ProbeFailureTolerated ==
    RanPass =>
        /\ last.exc = None
        /\ Len(last.infos) = Len(last.log)
        /\ \A k \in 1..Len(last.log) :
               /\ last.log[k] \in last.afail =>
                      last.infos[k].serial = ComportsSerial(last.log[k])
               /\ last.log[k] \in last.bfail =>
                      last.infos[k].serial = UdevSerial(last.log[k])
        /\ (\A k \in 1..Len(last.log) : last.log[k] \in last.afail) =>
               last.ret = <<ComportsOnly(1), ComportsOnly(2)>>

\* C7 witness: udevadm failed for both candidates of a pass from an empty
\* cache, comports for none, and both targets were resolved.
ProbeFailureWitness ==
    /\ RanPass
    /\ last.before = <<None, None>>
    /\ Len(last.log) = 2
    /\ last.afail = Attached /\ last.bfail = {}
    /\ last.ret[1] # None /\ last.ret[2] # None /\ last.ret[1] # last.ret[2]

\* No two candidates of the just-returned pass share a merged serial.
DistinctSerials ==
    \A j, k \in 1..Len(last.infos) :
        (j # k /\ last.infos[j].serial # None) =>
            last.infos[j].serial # last.infos[k].serial

\* C8: in a pass from an empty cache over candidates with distinct merged
\* serials and distinct targets, a slot is resolved exactly when some
\* candidate has the slot's target as merged serial, and then holds that
\* candidate's path wherever it stands in the enumeration; nothing raises.
MatchBySerial ==
    (Called /\ last.before = <<None, None>> /\ Target(1) # Target(2)
        /\ DistinctSerials) =>
        /\ last.exc = None
        /\ \A i \in Slots :
               IF MatchIdx(Target(i)) = {} THEN last.ret[i] = None
               ELSE \E k \in MatchIdx(Target(i)) : last.ret[i] = last.log[k]

\* C8 witness: candidates [ACM0:BBB222, ACM1:AAA111], targets
\* (AAA111, BBB222), result (ACM1, ACM0).
MatchBySerialWitness ==
    /\ Called
    /\ last.before = <<None, None>>
    /\ last.serial1 = "AAA111" /\ last.serial2 = "BBB222"
    /\ last.log = <<"/dev/ttyACM0", "/dev/ttyACM1">>
    /\ Len(last.infos) = 2
    /\ last.infos[1].serial = "BBB222" /\ last.infos[2].serial = "AAA111"
    /\ last.ret = <<"/dev/ttyACM1", "/dev/ttyACM0">>

\* C9: every call leaves what it returns in the cache; and a call that
\* starts with exactly one slot resolved runs a new enumeration pass, keeps
\* that slot resolved, and returns both slots resolved when a candidate's
\* merged serial equals the target of the unresolved slot, after which the
\* cache short-circuits.
RetryResolves ==
    [][last'.kind = "call" =>
          /\ last'.exc = None
          /\ last'.ret = <<port1', port2'>>
          /\ (Truthy(port1) # Truthy(port2)) =>
                /\ last'.globs = <<"/dev/ttyACM*", "/COM*">>
                /\ last'.log = fs["/dev/ttyACM*"] \o fs["/COM*"]
                /\ Truthy(port1) => Truthy(port1')
                /\ Truthy(port2) => Truthy(port2')
                /\ (\E k \in 1..Len(last'.infos) :
                        last'.infos[k].serial =
                            IF Truthy(port1) THEN last'.serial2
                                             ELSE last'.serial1) =>
                       (Truthy(port1') /\ Truthy(port2'))]_vars

\* C9 witness: a retry that started with only slot 1 resolved and returned
\* both slots resolved, each compared with its target.
RetryResolvesWitness ==
    /\ Called
    /\ last.before[1] # None /\ last.before[2] = None
    /\ last.log # <<>>
    /\ last.ret[1] # None /\ last.ret[2] # None
    /\ last.ret = Cache
    /\ verified = <<last.serial1, last.serial2>>

\* C10: a pass globs the ACM pattern, then the COM pattern, and probes
\* exactly the ACM candidates in the order glob returned them followed by
\* the COM candidates in the order glob returned them, each once; an empty
\* pattern adds nothing and raises nothing.
EnumerationOrder ==
    RanPass =>
        /\ last.exc = None
        /\ last.globs = <<"/dev/ttyACM*", "/COM*">>
        /\ last.log = fs["/dev/ttyACM*"] \o fs["/COM*"]
        /\ Len(last.infos) = Len(last.log)
        /\ \A k \in 1..Len(last.log) : last.infos[k].path = last.log[k]

\* C10 witness: a pass over one ACM candidate and one COM candidate.
EnumerationOrderWitness ==
    /\ RanPass
    /\ Len(last.log) = 2
    /\ last.log[1] \in AcmPaths
    /\ last.log[2] \in ComPaths

\* C12: a call that runs a pass prints exactly one line, after every
\* globbed candidate has been probed, and the line shows the pair the call
\* returns; a call answered from the cache prints nothing.
DiagnosticLine ==
    Called =>
        IF Truthy(last.before[1]) /\ Truthy(last.before[2])
        THEN last.printed = <<>>
        ELSE /\ last.exc = None
             /\ Len(last.log) = Len(fs["/dev/ttyACM*"]) + Len(fs["/COM*"])
             /\ last.printed = <<last.ret>>

\* C12 witness: a pass over two candidates that resolved one slot and
\* printed the half-resolved pair it returned.
DiagnosticLineWitness ==
    /\ RanPass
    /\ Len(last.log) = 2
    /\ last.ret[1] # None /\ last.ret[2] = None
    /\ last.printed = <<last.ret>>

\* C13: a resolved slot never becomes unresolved again, whatever is called
\* or plugged, so the number of resolved slots never decreases; and the
\* pair a call returns is the cache as the call leaves it.
ResolutionMonotone ==
    [][/\ Truthy(port1) => Truthy(port1')
       /\ Truthy(port2) => Truthy(port2')
       /\ (last'.kind = "call") =>
              (last'.exc = None /\ last'.ret = <<port1', port2'>>)]_vars

\* C13 witness: a pass ran although slot 1 was resolved, its device is
\* gone and no candidate has its serial, and slot 1 is still resolved.
ResolutionMonotoneWitness ==
    /\ RanPass
    /\ last.log # <<>>
    /\ last.before[1] # None
    /\ dev[last.before[1]] = None
    /\ MatchIdx(Target(1)) = {}
    /\ port1 = last.before[1]
    /\ last.ret = Cache

\* C14 as claimed: with distinct targets the two slots never hold the same
\* path. Stated for the states in which each slot's path was compared with
\* the serial that the just-returned call supplies for it, so that a
\* violation owes nothing to a change of targets between calls.
DistinctPaths ==
    (Called /\ Target(1) # Target(2)
        /\ verified = <<Target(1), Target(2)>>) =>
        ~(Truthy(port1) /\ port1 = port2)

\* C14 amended: with distinct targets a call never gives both slots the
\* same path itself: when it returns the same path twice, one of the slots
\* held that path in the cache before the call.
DistinctPathsUnlessCached ==
    (Called /\ last.exc = None /\ Target(1) # Target(2)
        /\ Truthy(last.ret[1]) /\ last.ret[1] = last.ret[2]) =>
        (last.before[1] = last.ret[1] \/ last.before[2] = last.ret[2])

\* C14 witness: slot 1 kept the path of an unplugged device, a device with
\* the other target's serial took that path, and a retry with the same
\* distinct targets gave slot 2 the same path.
DistinctPathsWitness ==
    /\ RanPass
    /\ Target(1) # Target(2)
    /\ verified = <<Target(1), Target(2)>>
    /\ last.before[1] # None /\ last.before[2] = None
    /\ last.ret[1] = last.before[1]
    /\ last.ret[2] = last.ret[1]
    /\ dev[last.ret[2]] = Target(2)

\* -------------------------------------------------------------------------
\* Properties of _get_device_info
\* -------------------------------------------------------------------------

\* The isolated call has returned.
Probed == mOut # NoInput

\* udevadm completed with exit code 0: its output is parsed.
UdevParsed == mIn.udev.raises = None /\ mIn.udev.returncode = 0

\* Positions of the output lines that set the property behind field f.
UdevLinesOf(f) ==
    {k \in 1..Len(mIn.udev.stdout) :
        mIn.udev.stdout[k].eq /\ mIn.udev.stdout[k].key = KeyOf(f)}

\* Probe A reported field f, and the value it reported (that of the last
\* such line).
UdevReported(f) == UdevParsed /\ UdevLinesOf(f) # {}
UdevValue(f) == mIn.udev.stdout[Max(UdevLinesOf(f))].value

\* Positions of the descriptors of the probed path.
PortsOfPath ==
    {k \in 1..Len(mIn.ports.list) : mIn.ports.list[k].device = mIn.path}

\* Probe B has a descriptor for the path: the first one counts.
ComportsFound == mIn.ports.raises = None /\ PortsOfPath # {}
FoundPort == mIn.ports.list[Min(PortsOfPath)]

\* The 4-digit lowercase hexadecimal form of the numeric ids of the inputs.
HexOf(n) == IF n = 10 THEN "000a" ELSE IF n = 11914 THEN "2e8a" ELSE "?"

\* The value Probe B has for field f.
ComportsValue(f) ==
    IF f = "serial" THEN FoundPort.serial_number
    ELSE IF f = "manufacturer" THEN FoundPort.manufacturer
    ELSE IF f = "product" THEN FoundPort.product
    ELSE IF f = "vendor_id"
    THEN IF FoundPort.vid \in {NoneInt, 0} THEN None ELSE HexOf(FoundPort.vid)
    ELSE IF FoundPort.pid \in {NoneInt, 0} THEN None ELSE HexOf(FoundPort.pid)

\* C6 as claimed: a field equals Probe A's value whenever Probe A reported
\* it, and Probe B's value (nothing without a descriptor) only when Probe A
\* left it absent.
MergePrecedence ==
    Probed =>
        \A f \in Fields :
            mOut.r.info[f] =
                IF UdevReported(f) THEN UdevValue(f)
                ELSE IF ComportsFound THEN ComportsValue(f)
                ELSE None

\* C6 amended: a field equals Probe A's value whenever Probe A reported a
\* non-empty value; when Probe A reported nothing or an empty value it
\* equals Probe B's value if Probe B has a descriptor for the path, and
\* otherwise stays what Probe A left (empty or absent). No probe result
\* makes the call raise.
MergePrecedenceNonEmpty ==
    Probed =>
        /\ mOut.r.exc = None
        /\ \A f \in Fields :
               mOut.r.info[f] =
                   IF UdevReported(f) /\ Truthy(UdevValue(f)) THEN UdevValue(f)
                   ELSE IF ComportsFound THEN ComportsValue(f)
                   ELSE IF UdevReported(f) THEN UdevValue(f)
                   ELSE None

\* C6 witness: Probe A reports serial "X", Probe B serial "Y", and the
\* merged serial is "X".
MergePrecedenceWitness ==
    /\ Probed
    /\ UdevReported("serial") /\ UdevValue("serial") = "X"
    /\ ComportsFound /\ ComportsValue("serial") = "Y"
    /\ mOut.r.info.serial = "X"

\* -------------------------------------------------------------------------
\* Properties of a pass over repeated paths
\* -------------------------------------------------------------------------

\* C11 as claimed: a pass over an enumeration that repeats paths returns
\* the pair, and leaves the cache, of the pass over the enumeration with
\* the repeated occurrences removed.
DuplicatesHarmless ==
    (dOut # NoInput) =>
        /\ dOut.repeats.exc = dOut.clean.exc
        /\ dOut.repeats.ret = dOut.clean.ret
        /\ dOut.repeats.port1 = dOut.clean.port1
        /\ dOut.repeats.port2 = dOut.clean.port2

\* -------------------------------------------------------------------------
\* Properties of concurrent callers
\* -------------------------------------------------------------------------

\* The pair one call alone returns in a fresh process on these devices.
SequentialPair ==
    GetXlerobotPort(None, None, conc.serial1, conc.serial2,
                    ProbeOutcomes("ok", "ok", {})).ret

\* C15 as claimed: no caller returns a value written by a pass that has not
\* finished scanning, and when both callers have returned they return the
\* same pair, the one a single sequential pass returns.
ConcurrentCallersAgree ==
    (conc # NoInput) =>
        /\ \A t \in Callers : ~conc.c[t].early
        /\ (\A t \in Callers : conc.c[t].pc = "done") =>
               \A t \in Callers : conc.c[t].ret = SequentialPair

====
